---- MODULE Spec2Model ----
(***************************************************************************)
(* The authentication client of the admin front end: the token store kept  *)
(* in localStorage, the axios client with its request and response         *)
(* interceptors (401 -> refresh -> retry once), and the session context    *)
(* (AuthProvider) built on top of them.                                    *)
(*                                                                         *)
(* The UI runs on one event loop: a response handler and the continuation  *)
(* of the async function awaiting it run back to back in one chain of      *)
(* microtasks, so one action models "a response arrives and everything     *)
(* that follows until the next await on the network".                      *)
(***************************************************************************)
EXTENDS Integers, FiniteSets, Sequences, Bags, TLC

\* ------------------------------------------------------------------ bounds
\* Calls made through apiClient in one run (the profile fetch of the mount
\* effect included); all of them may be awaiting the network at once.
MaxCalls == 2

\* Users in the backend, and the users on one page of the list (limit).
MaxUsers == 3

Limit == 2

\* ------------------------------------------------------------- value sets
null == "null"
AccessTokens == {"a1", "a2"}
RefreshTokens == {"r1", "r2"}
Users == {"u1", "u2"}

\* HTTP statuses the backend answers with; NoResponse is a transport
\* failure (timeout, network down) where error.response is undefined.
NoResponse == 0
ErrorStatuses == {401, 403, 500, NoResponse}

\* The calls made through apiClient, named after the function that makes
\* them: the five session operations, initializeAuth, and any other request
\* of the service layer (UserService.getUsers stands for them).
SessionKinds == {"initializeAuth", "login", "register", "logout",
                 "refreshToken", "updateProfile"}
Kinds == SessionKinds \cup {"getUsers"}

\* Body of a 2xx response: AuthResponse for login/register, User otherwise.
ResponseData == [user : Users, accessToken : AccessTokens,
                 refreshToken : RefreshTokens]
\* Body of the refresh endpoint's answer; the rotated refresh token may be
\* missing.
RefreshData == [accessToken : AccessTokens,
                refreshToken : RefreshTokens \cup {null}]

\* Only login and register read the tokens of the body; the other calls
\* read a User.
DataFor(kind) ==
    IF kind \in {"login", "register"} THEN ResponseData
    ELSE {d \in ResponseData : d.accessToken = "a1" /\ d.refreshToken = "r1"}

\* A rejection carries no body the continuations read.
NoData == [user |-> "u1", accessToken |-> "a1", refreshToken |-> "r1"]

VARIABLES
    localStorage,   \* [auth_token, refresh_token], null when the key is unset
    user,           \* useState<User | null>
    isLoading,      \* useState(true)
    mounted,        \* the mount effect of AuthProvider has run
    calls,          \* calls made through apiClient so far
    requests,       \* bag of the requests awaiting the network
    last,           \* the call that settled most recently, and how
    role,           \* user.role of the session's user (User.role)
    location,       \* useLocation(): [pathname, from (state.from.pathname)]
    rendered,       \* what the component rendered last returned
    queryRetries,   \* failed queries whose retry timer has not fired yet
    selectedUsers,  \* useState<User[]>([]) of UserList, as user ids
    filteredUsers,  \* the page of users on display, as user ids
    loggedOut       \* history: a logout() has completed with no login or
                    \* register in flight, and none was started since

\* The router, the rendered guard and the user list; the client calls leave
\* them alone.
ui == <<role, location, rendered, selectedUsers, filteredUsers>>

vars == <<localStorage, user, isLoading, mounted, calls, requests, last,
          role, location, rendered, queryRetries, loggedOut,
          selectedUsers, filteredUsers>>

\* ------------------------------------------------------ roles and routes
Permissions == {"user:read", "role:write"}

RoleNames == {"admin", "user"}

Roles == [name : RoleNames, permissions : SUBSET Permissions]

\* user.role is undefined (role?: Role).
NoRole == [name |-> null, permissions |-> {}]

LoginPath == "/login"

DefaultPath == "/dashboard"

\* The routes of App that are wrapped in ProtectedRoute.
ProtectedPaths == {"/dashboard", "/users"}

\* The location of a fresh visit: no state was passed to it.
Visit(pathname) == [pathname |-> pathname, from |-> null]

\* Nothing was rendered yet.
NoRender == [component |-> "none"]

\* --------------------------------------------------------- the token store
getToken(ls) == ls.auth_token

getRefreshToken(ls) == ls.refresh_token

\* if (refreshToken): an omitted refresh token (null here) and the empty
\* string are both falsy, and leave the stored refresh token as it is.
setTokens(ls, accessToken, refreshToken) ==
    [auth_token |-> accessToken,
     refresh_token |-> IF refreshToken # null /\ refreshToken # ""
                       THEN refreshToken
                       ELSE ls.refresh_token]

\* Variant: only the access-token key is removed.
clearTokens_accessOnly(ls) ==
    [auth_token |-> null, refresh_token |-> ls.refresh_token]

clearTokens(ls) == [auth_token |-> null, refresh_token |-> null]

\* const isAuthenticated = !!user && !!getToken()
isAuthenticated == user # null /\ getToken(localStorage) # null

\* ------------------------------------------------------- the axios client
\* A request awaiting the network: the config object of the call with its
\* Authorization header and its _retry mark, the phase it is in ("sent":
\* first send, "refreshing": the interceptor awaits the refresh endpoint,
\* "retrying": re-sent after a refresh), and how often it was sent and how
\* many refresh calls were made on its behalf.
Phases == {"sent", "refreshing", "retrying"}

\* defaultOptions: { queries: { retry: 1 } }
QueryRetry == 1

Requests == [kind : Kinds, phase : Phases,
             Authorization : AccessTokens \cup {null}, _retry : BOOLEAN,
             sends : Nat, refreshes : Nat, failureCount : 0..QueryRetry]

\* Variant: the interceptor passes the config on untouched.
requestInterceptor_noHeader(ls, Authorization) == Authorization

\* apiClient.interceptors.request.use: the stored token, when there is one,
\* replaces whatever Authorization header the config carries.
requestInterceptor(ls, Authorization) ==
    IF getToken(ls) # null THEN getToken(ls) ELSE Authorization

\* apiClient.get/post/put(...): a fresh config, through the request
\* interceptor, onto the wire.
newRequest(kind, ls) ==
    [kind |-> kind, phase |-> "sent",
     Authorization |-> requestInterceptor(ls, null), _retry |-> FALSE,
     sends |-> 1, refreshes |-> 0, failureCount |-> 0]

\* Variant: the _retry mark is not consulted.
shouldRefresh_ignoringRetry(status, originalRequest) == status = 401

\* Variant: the test of the _retry mark is inverted.
shouldRefresh_whenMarked(status, originalRequest) ==
    status = 401 /\ originalRequest._retry

\* if (error.response?.status === 401 && !originalRequest._retry)
shouldRefresh(status, originalRequest) ==
    status = 401 /\ ~originalRequest._retry

\* Variant: the missing refresh token is not noticed.
refreshTokenMissing_neverNoticed(ls) == FALSE

\* const refreshToken = getRefreshToken(); if (!refreshToken) throw ...
refreshTokenMissing(ls) == getRefreshToken(ls) = null

\* originalRequest._retry = true
markRetried(originalRequest) == [originalRequest EXCEPT !._retry = TRUE]

\* Variant: the refreshed tokens are not written to the store.
onRefreshed_notStored(ls, data) == ls

\* setTokens(accessToken, newRefreshToken) after a successful refresh
onRefreshed(ls, data) == setTokens(ls, data.accessToken, data.refreshToken)

\* Variant: the config is not re-sent after the refresh, and keeps waiting.
retryRequest_neverSent(originalRequest, ls, accessToken) == originalRequest

\* Variant: the config is re-sent with the header of its first send.
retryRequest_staleHeader(originalRequest, ls, accessToken) ==
    [originalRequest EXCEPT !.phase = "retrying", !.sends = @ + 1]

\* originalRequest.headers.Authorization = `Bearer ${accessToken}`;
\* return apiClient(originalRequest): the config goes through the request
\* interceptor again and is sent a second time.
retryRequest(originalRequest, ls, accessToken) ==
    [originalRequest EXCEPT
        !.Authorization = requestInterceptor(ls, accessToken),
        !.phase = "retrying",
        !.sends = @ + 1]

\* Variant: the catch block leaves the tokens in place.
onRefreshFailed_keepingTokens(ls) == ls

\* catch (refreshError): clearTokens()
onRefreshFailed(ls) == clearTokens(ls)

\* Variant: the status is taken from the response without a default.
apiErrorStatus_raw(status) == status

\* const apiError: ApiError = { ..., status: error.response?.status || 500 }
apiErrorStatus(status) == IF status = NoResponse THEN 500 ELSE status

\* ---------------------------------------------------- the session context
\* What runs after the awaited service call of each operation. s is
\* [ls, user, isLoading] as the interceptor left them; the result adds
\* threw: whether the operation rejects to its own caller.
\* Variant: the fetched profile is dropped when the token it was fetched
\* with is no longer stored.
initializeAuth_try_unlessCleared(s, data) ==
    [ls |-> s.ls, user |-> IF getToken(s.ls) # null THEN data.user ELSE null,
     isLoading |-> FALSE, threw |-> FALSE]

initializeAuth_try(s, data) ==
    [ls |-> s.ls, user |-> data.user, isLoading |-> FALSE, threw |-> FALSE]

\* Variant: the catch block resets the user but keeps the tokens.
initializeAuth_catch_keepingTokens(s) ==
    [ls |-> s.ls, user |-> null, isLoading |-> FALSE, threw |-> FALSE]

initializeAuth_catch(s) ==
    [ls |-> clearTokens(s.ls), user |-> null, isLoading |-> FALSE,
     threw |-> FALSE]

\* Variant: a login that completes after a logout has reset isLoading is
\* dropped.
login_try_droppedWhenStale(s, data) ==
    IF s.isLoading
    THEN [ls |-> setTokens(s.ls, data.accessToken, data.refreshToken),
          user |-> data.user, isLoading |-> FALSE, threw |-> FALSE]
    ELSE [ls |-> s.ls, user |-> s.user, isLoading |-> FALSE,
          threw |-> FALSE]

\* Variant: only the access token of the response is stored.
login_try_accessOnly(s, data) ==
    [ls |-> setTokens(s.ls, data.accessToken, null),
     user |-> data.user, isLoading |-> FALSE, threw |-> FALSE]

login_try(s, data) ==
    [ls |-> setTokens(s.ls, data.accessToken, data.refreshToken),
     user |-> data.user, isLoading |-> FALSE, threw |-> FALSE]

\* Variant: isLoading is reset in the try block only, not in a finally.
login_catch_stillLoading(s) ==
    [ls |-> s.ls, user |-> s.user, isLoading |-> s.isLoading, threw |-> TRUE]

login_catch(s) ==
    [ls |-> s.ls, user |-> s.user, isLoading |-> FALSE, threw |-> TRUE]

register_try(s, data) ==
    [ls |-> setTokens(s.ls, data.accessToken, data.refreshToken),
     user |-> data.user, isLoading |-> FALSE, threw |-> FALSE]

register_catch(s) ==
    [ls |-> s.ls, user |-> s.user, isLoading |-> FALSE, threw |-> TRUE]

\* Variant: the finally block resets the user but not the token store.
logout_finally_keepingTokens(s) ==
    [ls |-> s.ls, user |-> null, isLoading |-> FALSE, threw |-> FALSE]

\* logout's finally block runs after the try and after the catch alike.
logout_finally(s) ==
    [ls |-> clearTokens(s.ls), user |-> null, isLoading |-> FALSE,
     threw |-> FALSE]

refreshToken_try(s, data) ==
    [ls |-> s.ls, user |-> data.user, isLoading |-> s.isLoading,
     threw |-> FALSE]

\* Variant: the catch block resets the user but keeps the tokens.
refreshToken_catch_keepingTokens(s) ==
    [ls |-> s.ls, user |-> null, isLoading |-> s.isLoading, threw |-> TRUE]

refreshToken_catch(s) ==
    [ls |-> clearTokens(s.ls), user |-> null, isLoading |-> s.isLoading,
     threw |-> TRUE]

updateProfile_try(s, data) ==
    [ls |-> s.ls, user |-> data.user, isLoading |-> s.isLoading,
     threw |-> FALSE]

\* Variant: the catch block also drops the user, as refreshToken's does.
updateProfile_catch_droppingUser(s) ==
    [ls |-> s.ls, user |-> null, isLoading |-> s.isLoading, threw |-> TRUE]

updateProfile_catch(s) ==
    [ls |-> s.ls, user |-> s.user, isLoading |-> s.isLoading,
     threw |-> TRUE]

\* UserService.getUsers and the like: the session context is not involved,
\* the rejection goes to the caller (the query layer).
\* Variant: a failed request of the service layer drops the user.
getUsers_settled_droppingUser(s, fulfilled) ==
    [ls |-> s.ls, user |-> IF fulfilled THEN s.user ELSE null,
     isLoading |-> s.isLoading, threw |-> ~fulfilled]

getUsers_settled(s, fulfilled) ==
    [ls |-> s.ls, user |-> s.user, isLoading |-> s.isLoading,
     threw |-> ~fulfilled]

\* The continuation of the operation that made the call.
Continue(kind, fulfilled, data, s) ==
    CASE kind = "initializeAuth" ->
            IF fulfilled THEN initializeAuth_try(s, data)
            ELSE initializeAuth_catch(s)
      [] kind = "login" ->
            IF fulfilled THEN login_try(s, data) ELSE login_catch(s)
      [] kind = "register" ->
            IF fulfilled THEN register_try(s, data) ELSE register_catch(s)
      [] kind = "logout" -> logout_finally(s)
      [] kind = "refreshToken" ->
            IF fulfilled THEN refreshToken_try(s, data)
            ELSE refreshToken_catch(s)
      [] kind = "updateProfile" ->
            IF fulfilled THEN updateProfile_try(s, data)
            ELSE updateProfile_catch(s)
      [] OTHER -> getUsers_settled(s, fulfilled)

\* ------------------------------------------------------------------ state
\* redirect: the interceptor assigned window.location.href = '/login'. The
\* assignment only schedules the navigation: the rejection and the catch
\* blocks of the awaiting operation still run on the current page, which is
\* the lifetime modelled here.
NoLast == [kind |-> "none", result |-> "none", status |-> 0,
           threw |-> FALSE, redirect |-> FALSE, sends |-> 0, refreshes |-> 0]

Results == {"fulfilled", "ApiError", "refreshError", "noRefreshToken"}

\* localStorage outlives the page: a start finds either no tokens or the
\* pair an earlier login left.
Init ==
    /\ localStorage \in
          {[auth_token |-> null, refresh_token |-> null],
           [auth_token |-> "a1", refresh_token |-> "r1"]}
    /\ user = null
    /\ isLoading = TRUE
    /\ mounted = FALSE
    /\ calls = 0
    /\ requests = EmptyBag
    /\ last = NoLast
    /\ role = NoRole
    /\ location = Visit(LoginPath)
    /\ rendered = NoRender
    /\ queryRetries = 0
    /\ loggedOut = FALSE
    /\ selectedUsers = <<>>
    /\ filteredUsers = <<>>

InFlight == BagToSet(requests)

CanSend == mounted /\ calls < MaxCalls

Send(kind) ==
    requests' = requests (+) SetToBag({newRequest(kind, localStorage)})

Call(kind) == Send(kind) /\ calls' = calls + 1

\* The calls made by useQuery (getUsers stands for them) are made again by
\* the query layer when they fail, until failureCount reaches retry.
shouldRetryQuery(r, result) ==
    /\ r.kind = "getUsers"
    /\ result # "fulfilled"
    /\ r.failureCount < QueryRetry

\* The promise of request r settles and the awaiting operation continues.
\* ls1 is the token store as the interceptor left it.
Settle(r, result, status, ls1, redirect, data) ==
    LET k == Continue(r.kind, result = "fulfilled", data,
                      [ls |-> ls1, user |-> user, isLoading |-> isLoading])
    IN /\ localStorage' = k.ls
       /\ user' = k.user
       /\ isLoading' = k.isLoading
       /\ requests' = requests (-) SetToBag({r})
       /\ last' = [kind |-> r.kind, result |-> result, status |-> status,
                   threw |-> k.threw, redirect |-> redirect,
                   sends |-> r.sends, refreshes |-> r.refreshes]
       /\ queryRetries' = IF shouldRetryQuery(r, result)
                          THEN queryRetries + 1 ELSE queryRetries
       /\ loggedOut' =
             IF r.kind = "logout"
             THEN \A q \in InFlight : q.kind \notin {"login", "register"}
             ELSE loggedOut
       /\ UNCHANGED <<mounted, calls, ui>>

\* ---------------------------------------------------------------- actions
\* useEffect(() => { initializeAuth(); }, []) up to its first await.
initializeAuth ==
    /\ ~mounted
    /\ mounted' = TRUE
    /\ IF getToken(localStorage) # null
       THEN /\ Call("initializeAuth")
            /\ UNCHANGED isLoading
       ELSE /\ isLoading' = FALSE
            /\ UNCHANGED <<requests, calls>>
    /\ UNCHANGED <<localStorage, user, last, ui,
                   queryRetries, loggedOut>>

login ==
    /\ CanSend
    /\ isLoading' = TRUE
    /\ Call("login")
    /\ UNCHANGED <<localStorage, user, mounted, last, ui,
                   queryRetries>>
    /\ loggedOut' = FALSE

register ==
    /\ CanSend
    /\ isLoading' = TRUE
    /\ Call("register")
    /\ UNCHANGED <<localStorage, user, mounted, last, ui,
                   queryRetries>>
    /\ loggedOut' = FALSE

logout ==
    /\ CanSend
    /\ isLoading' = TRUE
    /\ Call("logout")
    /\ UNCHANGED <<localStorage, user, mounted, last, ui,
                   queryRetries, loggedOut>>

refreshToken ==
    /\ CanSend
    /\ Call("refreshToken")
    /\ UNCHANGED <<localStorage, user, isLoading, mounted, last, ui,
                   queryRetries, loggedOut>>

updateProfile ==
    /\ CanSend
    /\ Call("updateProfile")
    /\ UNCHANGED <<localStorage, user, isLoading, mounted, last, ui,
                   queryRetries, loggedOut>>

getUsers ==
    /\ CanSend
    /\ Call("getUsers")
    /\ UNCHANGED <<localStorage, user, isLoading, mounted, last, ui,
                   queryRetries, loggedOut>>

\* The backend answers 2xx: the response interceptor passes it through.
onFulfilled(r, data) ==
    /\ r \in InFlight
    /\ r.phase \in {"sent", "retrying"}
    /\ data \in DataFor(r.kind)
    /\ Settle(r, "fulfilled", 200, localStorage, FALSE, data)

\* The backend answers with an error, or not at all: the response
\* interceptor's error handler up to its first await.
onRejected(r, status) ==
    /\ r \in InFlight
    /\ r.phase \in {"sent", "retrying"}
    /\ IF shouldRefresh(status, r)
       THEN IF refreshTokenMissing(localStorage)
            THEN Settle(r, "noRefreshToken", status,
                        onRefreshFailed(localStorage), TRUE, NoData)
            ELSE /\ requests' =
                       (requests (-) SetToBag({r})) (+)
                       SetToBag({[markRetried(r) EXCEPT
                                     !.phase = "refreshing",
                                     !.refreshes = @ + 1]})
                 /\ UNCHANGED <<localStorage, user, isLoading, mounted,
                                calls, last, ui,
                                queryRetries, loggedOut>>
       ELSE Settle(r, "ApiError", apiErrorStatus(status), localStorage,
                   FALSE, NoData)

\* The refresh endpoint answers 2xx: store the tokens, re-send the request.
refreshFulfilled(r, data) ==
    /\ r \in InFlight
    /\ r.phase = "refreshing"
    /\ localStorage' = onRefreshed(localStorage, data)
    /\ requests' =
          (requests (-) SetToBag({r})) (+)
          SetToBag({retryRequest(r, localStorage', data.accessToken)})
    /\ UNCHANGED <<user, isLoading, mounted, calls, last, ui,
                   queryRetries, loggedOut>>

\* The refresh endpoint fails (any status, or no response): the call is
\* made with bare axios, so no interceptor sees the failure.
refreshRejected(r) ==
    /\ r \in InFlight
    /\ r.phase = "refreshing"
    /\ Settle(r, "refreshError", 0, onRefreshFailed(localStorage), TRUE,
              NoData)

\* The retry timer of a failed query fires: the query function is called
\* again, which makes a new request through apiClient.
retryQuery ==
    /\ queryRetries > 0
    /\ queryRetries' = queryRetries - 1
    /\ requests' = requests (+)
          SetToBag({[newRequest("getUsers", localStorage) EXCEPT
                        !.failureCount = 1]})
    /\ UNCHANGED <<localStorage, user, isLoading, mounted, calls, last, ui,
                   loggedOut>>

Next ==
    \/ initializeAuth
    \/ login
    \/ register
    \/ logout
    \/ refreshToken
    \/ updateProfile
    \/ getUsers
    \/ \E r \in InFlight, data \in ResponseData : onFulfilled(r, data)
    \/ \E r \in InFlight, status \in ErrorStatuses : onRejected(r, status)
    \/ \E r \in InFlight, data \in RefreshData : refreshFulfilled(r, data)
    \/ \E r \in InFlight : refreshRejected(r)
    \/ retryQuery

Spec == Init /\ [][Next]_vars

\* The backend answers a call that is waiting for it: a request on the
\* wire, or a call to the refresh endpoint.
Answer ==
    \E r \in InFlight :
       \/ \E data \in ResponseData : onFulfilled(r, data)
       \/ \E status \in ErrorStatuses : onRejected(r, status)
       \/ \E data \in RefreshData : refreshFulfilled(r, data)
       \/ refreshRejected(r)

\* The same program with a backend that answers every call sooner or later
\* (a call without an answer ends by the timeout of the transport, which is
\* the answer NoResponse), and retry timers that fire.
LiveSpec == Spec /\ WF_vars(Answer) /\ WF_vars(retryQuery)

TypeOK ==
    /\ localStorage \in [auth_token : AccessTokens \cup {null},
                         refresh_token : RefreshTokens \cup {null}]
    /\ user \in Users \cup {null}
    /\ isLoading \in BOOLEAN
    /\ mounted \in BOOLEAN
    /\ calls \in 0..MaxCalls
    /\ IsABag(requests)
    /\ BagCardinality(requests) + queryRetries <= MaxCalls
    /\ queryRetries \in 0..MaxCalls
    /\ loggedOut \in BOOLEAN
    /\ \A r \in BagToSet(requests) : r \in Requests
    /\ last.kind \in Kinds \cup {"none"}
    /\ last.result \in Results \cup {"none"}

\* ------------------------------------------------------ permission hooks
\* Arrays of permissions are read as the sets of their elements: the hooks
\* and guards only use includes, some, every and length > 0.

\* Variant: the early return of the hook answers true.
usePermission_failOpen(u, rl, permission) ==
    IF u = null \/ rl = NoRole THEN TRUE
    ELSE permission \in rl.permissions

usePermission(u, rl, permission) ==
    IF u = null \/ rl = NoRole THEN FALSE
    ELSE permission \in rl.permissions

\* Variant: some is written every.
useAnyPermission_every(u, rl, permissions) ==
    IF u = null \/ rl = NoRole THEN FALSE
    ELSE \A p \in permissions : p \in rl.permissions

useAnyPermission(u, rl, permissions) ==
    IF u = null \/ rl = NoRole THEN FALSE
    ELSE \E p \in permissions : p \in rl.permissions

useAllPermissions(u, rl, permissions) ==
    IF u = null \/ rl = NoRole THEN FALSE
    ELSE \A p \in permissions : p \in rl.permissions

\* ----------------------------------------------------------------- guards
\* What a guard returns: its children, a loading page, a fallback view, or
\* <Navigate to state={{from}} replace />.
Children == [out |-> "children", to |-> null, from |-> null]

LoadingPage == [out |-> "loading", to |-> null, from |-> null]

Fallback == [out |-> "fallback", to |-> null, from |-> null]

Navigate(to, from) == [out |-> "redirect", to |-> to, from |-> from]

\* The session as useAuth() hands it to a component.
useAuth ==
    [user |-> user, role |-> role, isLoading |-> isLoading,
     isAuthenticated |-> isAuthenticated]

\* Variant: the authentication test comes before the loading test.
ProtectedRoute_authFirst(s, redirectTo, loc) ==
    IF ~s.isAuthenticated THEN Navigate(redirectTo, loc.pathname)
    ELSE IF s.isLoading THEN LoadingPage
    ELSE Children

ProtectedRoute(s, redirectTo, loc) ==
    IF s.isLoading THEN LoadingPage
    ELSE IF ~s.isAuthenticated THEN Navigate(redirectTo, loc.pathname)
    ELSE Children

RoleGuardProps ==
    [requiredPermissions : SUBSET Permissions,
     requiredRole : RoleNames \cup {null},
     requireAll : BOOLEAN,
     redirectTo : {null, "/unauthorized"}]

\* redirectTo ? <Navigate to={redirectTo} replace /> : <FallbackComponent />
Unauthorized(props) ==
    IF props.redirectTo # null THEN Navigate(props.redirectTo, null)
    ELSE Fallback

\* Variant: the every and some branches are exchanged.
RoleGuard_modesExchanged(s, props, loc) ==
    IF s.isLoading THEN LoadingPage
    ELSE IF ~s.isAuthenticated THEN Navigate(LoginPath, loc.pathname)
    ELSE IF s.user = null \/ s.role = NoRole THEN Unauthorized(props)
    ELSE IF props.requiredRole # null /\ s.role.name # props.requiredRole
         THEN Unauthorized(props)
    ELSE IF props.requiredPermissions # {}
            /\ ~(IF props.requireAll
                 THEN \E p \in props.requiredPermissions :
                         p \in s.role.permissions
                 ELSE \A p \in props.requiredPermissions :
                         p \in s.role.permissions)
         THEN Unauthorized(props)
    ELSE Children

\* Variant: the role name is not compared.
RoleGuard_anyRoleName(s, props, loc) ==
    IF s.isLoading THEN LoadingPage
    ELSE IF ~s.isAuthenticated THEN Navigate(LoginPath, loc.pathname)
    ELSE IF s.user = null \/ s.role = NoRole THEN Unauthorized(props)
    ELSE IF props.requiredPermissions # {}
            /\ ~(IF props.requireAll
                 THEN \A p \in props.requiredPermissions :
                         p \in s.role.permissions
                 ELSE \E p \in props.requiredPermissions :
                         p \in s.role.permissions)
         THEN Unauthorized(props)
    ELSE Children

RoleGuard(s, props, loc) ==
    IF s.isLoading THEN LoadingPage
    ELSE IF ~s.isAuthenticated THEN Navigate(LoginPath, loc.pathname)
    ELSE IF s.user = null \/ s.role = NoRole THEN Unauthorized(props)
    ELSE IF props.requiredRole # null /\ s.role.name # props.requiredRole
         THEN Unauthorized(props)
    ELSE IF props.requiredPermissions # {}
            /\ ~(IF props.requireAll
                 THEN \A p \in props.requiredPermissions :
                         p \in s.role.permissions
                 ELSE \E p \in props.requiredPermissions :
                         p \in s.role.permissions)
         THEN Unauthorized(props)
    ELSE Children

\* permission is null and permissions is {} when the prop is not passed
\* (an absent and an empty permissions array take the same branch).
PermissionGuardProps ==
    [permission : Permissions \cup {null},
     permissions : SUBSET Permissions,
     requireAll : BOOLEAN]

PermissionGuard(s, props) ==
    LET hasPermission ==
            IF props.permission # null
            THEN usePermission(s.user, s.role, props.permission)
            ELSE IF props.permissions # {}
            THEN IF props.requireAll
                 THEN useAllPermissions(s.user, s.role, props.permissions)
                 ELSE useAnyPermission(s.user, s.role, props.permissions)
            ELSE FALSE
    IN IF hasPermission THEN Children ELSE Fallback

HasPermission(permission) ==
    [permission |-> permission, permissions |-> {}, requireAll |-> FALSE]

HasAnyPermission(permissions) ==
    [permission |-> null, permissions |-> permissions, requireAll |-> FALSE]

HasAllPermissions(permissions) ==
    [permission |-> null, permissions |-> permissions, requireAll |-> TRUE]

\* const from = location.state?.from?.pathname || '/dashboard'
LoginForm_from(loc) == IF loc.from # null THEN loc.from ELSE DefaultPath

\* ------------------------------------------------- rendering the guards
\* The guards are functions of the session and their props. They are
\* exercised from every session the provider can hand them, each with every
\* role the backend may have put in the user, and through the router.
GuardInit ==
    /\ localStorage \in
          {[auth_token |-> null, refresh_token |-> null],
           [auth_token |-> "a1", refresh_token |-> "r1"]}
    /\ user \in {null, "u1"}
    /\ role \in Roles \cup {NoRole}
    /\ user = null => role = NoRole
    /\ isLoading \in BOOLEAN
    /\ mounted = TRUE
    /\ calls = 0
    /\ requests = EmptyBag
    /\ last = NoLast
    /\ location \in {Visit(p) : p \in ProtectedPaths \cup {LoginPath}}
    /\ rendered = NoRender
    /\ queryRetries = 0
    /\ loggedOut = FALSE
    /\ selectedUsers = <<>>
    /\ filteredUsers = <<>>

session == <<localStorage, user, isLoading, role>>

client == <<mounted, calls, requests, last, queryRetries, loggedOut>>

\* A <Navigate> that was rendered moves the router to its target.
Show(component, props, result) ==
    /\ rendered' = [component |-> component, props |-> props,
                    session |-> useAuth, location |-> location,
                    result |-> result]
    /\ location' = IF result.out = "redirect"
                   THEN [pathname |-> result.to, from |-> result.from]
                   ELSE location
    /\ UNCHANGED session
    /\ UNCHANGED <<client, selectedUsers, filteredUsers>>

\* A route of App wrapped in <ProtectedRoute> is rendered.
renderProtectedRoute ==
    /\ location.pathname \in ProtectedPaths
    /\ Show("ProtectedRoute", [redirectTo |-> LoginPath],
            ProtectedRoute(useAuth, LoginPath, location))

\* A <RoleGuard> is rendered, on whatever route it was put.
renderRoleGuard(props) ==
    /\ props \in RoleGuardProps
    /\ Show("RoleGuard", props, RoleGuard(useAuth, props, location))

\* The permission guards of the pages are below the ProtectedRoute of their
\* route, and are rendered when it renders its children.
renderPermissionGuard(props) ==
    /\ location.pathname \in ProtectedPaths
    /\ ProtectedRoute(useAuth, LoginPath, location) = Children
    /\ Show("PermissionGuard", props, PermissionGuard(useAuth, props))

\* A component calls the three exported hooks.
callHooks(permission, permissions) ==
    /\ permission \in Permissions
    /\ Show("hooks", [permission |-> permission, permissions |-> permissions],
         [out |-> "hooks",
          single |-> usePermission(user, role, permission),
          any |-> useAnyPermission(user, role, permissions),
          all |-> useAllPermissions(user, role, permissions)])

\* What /auth/login answers here: a user with its role, and a token pair.
LoginResponses ==
    [user : {"u2"}, accessToken : {"a2"}, refreshToken : {"r2"},
     role : Roles \cup {NoRole}]

\* LoginForm.onSubmit with the login() it awaits, answered at once: the
\* form navigates when login() returned, and only logs when it threw.
LoginForm_onSubmit(fulfilled, data) ==
    LET k == Continue("login", fulfilled, data,
                      [ls |-> localStorage, user |-> user,
                       isLoading |-> isLoading])
    IN /\ location.pathname = LoginPath
       /\ localStorage' = k.ls
       /\ user' = k.user
       /\ isLoading' = k.isLoading
       /\ role' = IF fulfilled THEN data.role ELSE role
       /\ location' = IF k.threw THEN location
                      ELSE Visit(LoginForm_from(location))
       /\ rendered' = [component |-> "LoginForm",
                       props |-> [fulfilled |-> fulfilled, data |-> data],
                       session |-> useAuth, location |-> location,
                       result |-> [out |-> IF k.threw THEN "threw"
                                           ELSE "navigated"]]
       /\ UNCHANGED <<client, selectedUsers, filteredUsers>>

\* A visit to another route.
visit(pathname) ==
    /\ location.pathname # pathname
    /\ location' = Visit(pathname)
    /\ rendered' = NoRender
    /\ UNCHANGED session
    /\ UNCHANGED <<client, selectedUsers, filteredUsers>>

GuardNext ==
    \/ renderProtectedRoute
    \/ \E props \in RoleGuardProps : renderRoleGuard(props)
    \/ \E props \in {HasPermission(p) : p \in Permissions}
                    \cup {HasAnyPermission(R) : R \in SUBSET Permissions}
                    \cup {HasAllPermissions(R) : R \in SUBSET Permissions} :
          renderPermissionGuard(props)
    \/ \E p \in Permissions, R \in SUBSET Permissions : callHooks(p, R)
    \/ \E fulfilled \in BOOLEAN, data \in LoginResponses :
          LoginForm_onSubmit(fulfilled, data)
    \/ \E p \in ProtectedPaths \cup {LoginPath} : visit(p)

GuardSpec == GuardInit /\ [][GuardNext]_vars

\* -------------------------------------------------------- the token store
\* The store functions on their own: they keep whatever strings they are
\* given, the empty string included, and are called from every content of
\* the two keys.
TokenStrings == AccessTokens \cup RefreshTokens \cup {""}

StoreInit ==
    /\ localStorage \in [auth_token : TokenStrings \cup {null},
                         refresh_token : TokenStrings \cup {null}]
    /\ user = null
    /\ isLoading = TRUE
    /\ mounted = FALSE
    /\ calls = 0
    /\ requests = EmptyBag
    /\ last = NoLast
    /\ role = NoRole
    /\ location = Visit(LoginPath)
    /\ rendered = NoRender
    /\ queryRetries = 0
    /\ loggedOut = FALSE
    /\ selectedUsers = <<>>
    /\ filteredUsers = <<>>

\* setTokens(accessToken, refreshToken) is called; last keeps the arguments
\* and the store as it was.
callSetTokens(accessToken, newRefreshToken) ==
    /\ localStorage' = setTokens(localStorage, accessToken, newRefreshToken)
    /\ last' = [kind |-> "setTokens", accessToken |-> accessToken,
                refreshToken |-> newRefreshToken, before |-> localStorage]
    /\ UNCHANGED <<user, isLoading, mounted, calls, requests, ui,
                   queryRetries, loggedOut>>

callClearTokens ==
    /\ localStorage' = clearTokens(localStorage)
    /\ last' = [kind |-> "clearTokens", before |-> localStorage]
    /\ UNCHANGED <<user, isLoading, mounted, calls, requests, ui,
                   queryRetries, loggedOut>>

StoreNext ==
    \/ \E accessToken \in TokenStrings,
          newRefreshToken \in TokenStrings \cup {null} :
          callSetTokens(accessToken, newRefreshToken)
    \/ callClearTokens

StoreSpec == StoreInit /\ [][StoreNext]_vars

\* ---------------------------------------------------- the list of users
\* UserList keeps the selection as an array of users and shows one page of
\* users at a time; users stand here by their ids, which is all the
\* handlers compare.
UserIds == 1..MaxUsers

Range(seq) == {seq[i] : i \in DOMAIN seq}

\* The pages the backend can answer with: at most Limit users, no user
\* twice.
Pages ==
    {page \in UNION {[1..n -> UserIds] : n \in 0..Limit} :
        \A i, j \in DOMAIN page : i # j => page[i] # page[j]}

\* The updater handleUserSelect passes to setSelectedUsers.
handleUserSelect_updater(prev, id) ==
    IF \E i \in DOMAIN prev : prev[i] = id
    THEN SelectSeq(prev, LAMBDA selected : selected # id)
    ELSE Append(prev, id)

\* const isAllSelected = users.length > 0 &&
\*                       selectedUsers.length === users.length
isAllSelected(users, selected) ==
    Len(users) > 0 /\ Len(selected) = Len(users)

isUserSelected(selected, id) == \E i \in DOMAIN selected : selected[i] = id

\* UserList is mounted under /users for a signed-in user; nothing is
\* selected and no page has arrived yet (usersData?.users || []).
ListInit ==
    /\ localStorage = [auth_token |-> "a1", refresh_token |-> "r1"]
    /\ user = "u1"
    /\ isLoading = FALSE
    /\ mounted = TRUE
    /\ calls = 0
    /\ requests = EmptyBag
    /\ last = NoLast
    /\ role = NoRole
    /\ location = Visit("/users")
    /\ rendered = NoRender
    /\ queryRetries = 0
    /\ loggedOut = FALSE
    /\ selectedUsers = <<>>
    /\ filteredUsers = <<>>

rest == <<localStorage, user, isLoading, mounted, calls, requests, last,
          role, location, rendered, queryRetries, loggedOut>>

\* The checkbox of a displayed row is clicked.
handleUserSelect(id) ==
    /\ id \in Range(filteredUsers)
    /\ selectedUsers' = handleUserSelect_updater(selectedUsers, id)
    /\ UNCHANGED <<filteredUsers, rest>>

handleSelectAll ==
    /\ selectedUsers' = IF Len(selectedUsers) = Len(filteredUsers)
                        THEN <<>> ELSE filteredUsers
    /\ UNCHANGED <<filteredUsers, rest>>

handleClearSelection ==
    /\ selectedUsers' = <<>>
    /\ UNCHANGED <<filteredUsers, rest>>

\* onChange={isAllSelected ? onClearSelection : onSelectAll}
selectAllCheckbox ==
    IF isAllSelected(filteredUsers, selectedUsers)
    THEN handleClearSelection
    ELSE handleSelectAll

\* Another page, filter or sort order is asked for and the users of the
\* answer are displayed; the selection is not touched.
setPage(page) ==
    /\ page # filteredUsers
    /\ filteredUsers' = page
    /\ UNCHANGED <<selectedUsers, rest>>

ListNext ==
    \/ \E id \in UserIds : handleUserSelect(id)
    \/ selectAllCheckbox
    \/ handleClearSelection
    \/ \E page \in Pages : setPage(page)

ListSpec == ListInit /\ [][ListNext]_vars

\* ----------------------------------------------------------- vocabulary
EmptyStore == [auth_token |-> null, refresh_token |-> null]

\* The permissions of the role of the session's user; none without a role.
userPermissions(s) ==
    IF s.user # null /\ s.role # NoRole THEN s.role.permissions ELSE {}

\* The user is absent, has no role, or has a role without permissions.
NoPermissions(s) == userPermissions(s) = {}

\* The permission evaluator: membership for a single permission, every
\* required permission under ALL, some required permission under ANY.
Evaluator(P, props) ==
    IF props.permission # null THEN props.permission \in P
    ELSE IF props.requireAll THEN \A p \in props.permissions : p \in P
    ELSE \E p \in props.permissions : p \in P

\* A step of a request that no session operation made: the call of the
\* users list, its retry by the query layer, and what the interceptor does
\* with its answers.
OutsideSessionStep ==
    \/ getUsers
    \/ retryQuery
    \/ \E r \in InFlight :
          /\ r.kind = "getUsers"
          /\ \/ \E data \in ResponseData : onFulfilled(r, data)
             \/ \E status \in ErrorStatuses : onRejected(r, status)
             \/ \E data \in RefreshData : refreshFulfilled(r, data)
             \/ refreshRejected(r)

\* This step settles a call of the given kind.
Settled(kind) ==
    /\ BagCardinality(requests') < BagCardinality(requests)
    /\ last'.kind = kind

\* The request configs put on the wire by this step.
SentNow ==
    {r \in BagToSet(requests') :
        /\ r.phase \in {"sent", "retrying"}
        /\ CopiesIn(r, requests') > CopiesIn(r, requests)}

\* Calls to the refresh endpoint awaiting their answer.
RefreshCallsInFlight ==
    BagCardinality([r \in {q \in InFlight : q.phase = "refreshing"} |->
                       CopiesIn(r, requests)])

\* ----------------------------------------------------------------- claims
\* C1: for every request, whatever the backend answers, at most one refresh
\* call and at most one re-send are made on its behalf; a request is re-sent
\* only after its one refresh, and a 401 on the re-sent request reaches the
\* caller as an error without a second refresh or a third send.
C1_AtMostOneRefreshAndRetry ==
    /\ \A r \in InFlight :
          /\ r.refreshes <= 1
          /\ r.sends <= 2
          /\ r.phase = "sent" => r.sends = 1 /\ r.refreshes = 0
          /\ r.phase = "refreshing" => r.sends = 1 /\ r.refreshes = 1
          /\ r.phase = "retrying" => r.sends = 2 /\ r.refreshes = 1
    /\ last.refreshes <= 1
    /\ last.sends <= 2
    /\ last.sends = 2 => last.refreshes = 1
    /\ last.result = "ApiError" /\ last.status = 401 =>
          last.sends = 2 /\ last.refreshes = 1

\* A request got 401 twice: once on the first send, once on the re-send.
C1_Witness ==
    /\ last.result = "ApiError"
    /\ last.status = 401
    /\ last.sends = 2
    /\ last.refreshes = 1

\* C2: when the refresh call made for a 401 fails, the step that handles the
\* failure leaves both tokens cleared, assigns the login location, does not
\* re-send the original request and rejects with the refresh error.
C2_RefreshFailureClearsAndRejects ==
    [][\A r \in InFlight :
          refreshRejected(r) =>
             /\ localStorage' = EmptyStore
             /\ last'.redirect
             /\ last'.result = "refreshError"
             /\ last'.sends = 1
             /\ SentNow = {}
             /\ r.kind # "logout" /\ r.kind # "initializeAuth" => last'.threw]_vars

C2_Witness ==
    /\ last.result = "refreshError"
    /\ last.redirect
    /\ last.sends = 1
    /\ last.threw
    /\ localStorage = EmptyStore

\* C3: the step that completes logout(), whether the backend call succeeded
\* or failed and whatever the session was, leaves no access token, no
\* refresh token, no user, isLoading false and isAuthenticated false, and
\* logout() does not reject.
C3_LogoutAlwaysAnonymous ==
    [][Settled("logout") =>
          /\ localStorage' = EmptyStore
          /\ user' = null
          /\ ~isLoading'
          /\ ~isAuthenticated'
          /\ ~last'.threw]_vars

\* A logout whose backend call failed has completed.
C3_Witness ==
    /\ last.kind = "logout"
    /\ last.result = "ApiError"
    /\ ~last.threw
    /\ localStorage = EmptyStore
    /\ user = null
    /\ ~isLoading

\* C4 as stated: the session starts loading with no user; without a stored
\* access token the mount effect issues no request and ends anonymous; with
\* one, a fulfilled profile fetch ends authenticated with the fetched user
\* and a rejected one ends anonymous with both tokens cleared; isLoading
\* ends false in every case.
C4_InitAsStated ==
    [][/\ initializeAuth /\ getToken(localStorage) = null =>
             /\ requests' = requests
             /\ user' = null
             /\ ~isLoading'
             /\ ~isAuthenticated'
       /\ \A r \in InFlight, d \in ResponseData :
             onFulfilled(r, d) /\ r.kind = "initializeAuth" =>
                /\ user' = d.user
                /\ ~isLoading'
                /\ isAuthenticated'
       /\ Settled("initializeAuth") /\ last'.result # "fulfilled" =>
             /\ user' = null
             /\ localStorage' = EmptyStore
             /\ ~isLoading']_vars

\* C4, amended: as stated, except that a fulfilled profile fetch ends
\* authenticated only if the access token is still stored when it arrives;
\* it always ends with the fetched user and isLoading false.
C4_Init ==
    /\ [](~mounted => isLoading /\ user = null /\ requests = EmptyBag)
    /\ [][/\ initializeAuth /\ getToken(localStorage) = null =>
                /\ requests' = requests
                /\ user' = null
                /\ ~isLoading'
                /\ ~isAuthenticated'
          /\ initializeAuth /\ getToken(localStorage) # null =>
                /\ isLoading'
                /\ user' = null
                /\ \E q \in SentNow : q.kind = "initializeAuth"
          /\ \A r \in InFlight, d \in ResponseData :
                onFulfilled(r, d) /\ r.kind = "initializeAuth" =>
                   /\ user' = d.user
                   /\ ~isLoading'
                   /\ isAuthenticated' <=> getToken(localStorage) # null
          /\ Settled("initializeAuth") /\ last'.result # "fulfilled" =>
                /\ user' = null
                /\ localStorage' = EmptyStore
                /\ ~isLoading'
                /\ ~isAuthenticated']_vars

\* The profile fetch of the mount effect got 401, the refresh failed, and
\* the session ended anonymous with the tokens cleared.
C4_Witness ==
    /\ last.kind = "initializeAuth"
    /\ last.result = "refreshError"
    /\ user = null
    /\ localStorage = EmptyStore
    /\ ~isLoading

\* C5: the step that completes a login or a register whose backend call
\* succeeded with user u and tokens (a, r) leaves exactly (a, r) in the
\* token store, user u, isLoading false and isAuthenticated true.
C5_LoginSuccess ==
    [][\A r \in InFlight, d \in ResponseData :
          onFulfilled(r, d) /\ r.kind \in {"login", "register"} =>
             /\ localStorage' = [auth_token |-> d.accessToken,
                                 refresh_token |-> d.refreshToken]
             /\ user' = d.user
             /\ ~isLoading'
             /\ isAuthenticated'
             /\ ~last'.threw]_vars

\* A login made with an empty token store has succeeded.
C5_Witness ==
    /\ last.kind = "login"
    /\ last.result = "fulfilled"
    /\ last.sends = 1
    /\ calls = 1
    /\ isAuthenticated
    /\ getRefreshToken(localStorage) # null
    /\ ~isLoading

\* C6 as stated: the step that completes a failed login or register
\* re-throws, leaves the user and both tokens as they were, and leaves
\* isLoading false.
C6_LoginFailureAsStated ==
    [][\A kind \in {"login", "register"} :
          Settled(kind) /\ last'.result # "fulfilled" =>
             /\ last'.threw
             /\ ~isLoading'
             /\ user' = user
             /\ localStorage' = localStorage]_vars

\* C7 as stated: at most one call to the refresh endpoint is in flight.
C7_SingleFlightAsStated == RefreshCallsInFlight <= 1

\* C7, amended: refreshes are not coalesced. Every not-yet-retried request
\* that fails with 401 while a refresh token is stored makes its own call
\* to the refresh endpoint, whether or not another one is in flight, so the
\* calls in flight number one per such request.
C7_OneRefreshPerFailingRequest ==
    /\ [](RefreshCallsInFlight <= BagCardinality(requests))
    /\ [][\A r \in InFlight :
             /\ onRejected(r, 401)
             /\ ~r._retry
             /\ getRefreshToken(localStorage) # null
             => RefreshCallsInFlight' = RefreshCallsInFlight + 1]_vars

\* Two refresh calls are in flight at once.
C7_Witness == RefreshCallsInFlight = 2

\* C8: no request is put on the wire, first send or re-send, with an access
\* token in its Authorization header while the token store holds none.
C8_NoTokenUsedAfterClear ==
    [][\A q \in SentNow :
          q.Authorization # null => getToken(localStorage') # null]_vars

\* After a logout emptied the store, a refresh that was in flight succeeded
\* and its request was re-sent with the token the store now holds.
C8_Witness ==
    /\ last.kind = "logout"
    /\ \E q \in InFlight :
          /\ q.phase = "retrying"
          /\ q.Authorization # null
          /\ q.Authorization = getToken(localStorage)
          /\ getRefreshToken(localStorage) = null

\* C9 as stated: the step in which a refresh fails, or cannot be attempted
\* for want of a refresh token, leaves the user absent and both tokens
\* absent.
C9_FullResetAsStated ==
    [][\A kind \in Kinds :
          Settled(kind) /\ last'.result \in {"refreshError", "noRefreshToken"}
          => user' = null /\ localStorage' = EmptyStore]_vars

\* C10: when the refresh succeeds with a' (and r'), the same step stores a'
\* (and r' when present, else keeps the stored refresh token) and re-sends
\* the original request with a' as its bearer token; the caller then gets
\* the outcome of the re-sent request: its body when it is answered 2xx,
\* its error otherwise.
C10_RefreshSuccessRetries ==
    [][/\ \A r \in InFlight, d \in RefreshData :
             refreshFulfilled(r, d) =>
                /\ getToken(localStorage') = d.accessToken
                /\ getRefreshToken(localStorage') =
                      IF d.refreshToken # null THEN d.refreshToken
                      ELSE getRefreshToken(localStorage)
                /\ SentNow # {}
                /\ \A q \in SentNow :
                      /\ q.kind = r.kind
                      /\ q.Authorization = d.accessToken
                      /\ q.phase = "retrying"
                      /\ q.sends = 2
                /\ last' = last
       /\ \A r \in InFlight, d \in ResponseData :
             onFulfilled(r, d) /\ r.phase = "retrying" =>
                /\ last'.kind = r.kind
                /\ last'.result = "fulfilled"
                /\ r.kind \in {"initializeAuth", "refreshToken",
                               "updateProfile", "login", "register"}
                   => user' = d.user
       /\ \A r \in InFlight, status \in ErrorStatuses :
             onRejected(r, status) /\ r.phase = "retrying" =>
                /\ last'.kind = r.kind
                /\ last'.result = "ApiError"
                /\ last'.status = apiErrorStatus(status)
                /\ SentNow = {}]_vars

\* A request was refreshed with a rotated refresh token, re-sent, and
\* answered 2xx.
C10_Witness ==
    /\ last.result = "fulfilled"
    /\ last.sends = 2
    /\ last.refreshes = 1
    /\ last.kind = "updateProfile"
    /\ localStorage = [auth_token |-> "a2", refresh_token |-> "r2"]
    /\ user # null

\* C11: when a not-yet-retried request is answered 401 and no refresh token
\* is stored, the same step settles the call: no call to the refresh
\* endpoint is made, nothing is re-sent, the login location is assigned and
\* the caller is rejected with the "no refresh token" error.
C11_NoRefreshTokenFailsAtOnce ==
    [][\A r \in InFlight :
          /\ onRejected(r, 401)
          /\ ~r._retry
          /\ localStorage.refresh_token = null
          => /\ RefreshCallsInFlight' = RefreshCallsInFlight
             /\ SentNow = {}
             /\ BagCardinality(requests') = BagCardinality(requests) - 1
             /\ last'.kind = r.kind
             /\ last'.result = "noRefreshToken"
             /\ last'.refreshes = 0
             /\ last'.sends = 1
             /\ last'.redirect
             /\ r.kind \notin {"logout", "initializeAuth"} => last'.threw]_vars

\* A call made without stored tokens got 401 and was rejected at once.
C11_Witness ==
    /\ last.result = "noRefreshToken"
    /\ last.status = 401
    /\ last.refreshes = 0
    /\ last.sends = 1
    /\ last.redirect
    /\ last.threw

\* C12: every request put on the wire while an access token is stored, first
\* send or re-send, carries the token the store holds at that moment.
C12_BearerIsCurrentToken ==
    [][\A q \in SentNow :
          getToken(localStorage') # null =>
             q.Authorization = getToken(localStorage')]_vars

\* A request sent after a refresh replaced the stored token carries the new
\* token, not the one the session started with.
C12_Witness ==
    /\ getToken(localStorage) = "a2"
    /\ \E q \in InFlight :
          /\ q.phase = "sent"
          /\ q.Authorization = "a2"
    /\ last.refreshes = 1

\* C13 as stated: the access token and the refresh token are both stored or
\* both absent; both are stored whenever the session is authenticated and
\* both are absent whenever it is logged out (no user, nothing in flight).
C13_TokenPairAsStated ==
    /\ getToken(localStorage) = null <=> getRefreshToken(localStorage) = null
    /\ isAuthenticated => getRefreshToken(localStorage) # null
    /\ mounted /\ user = null /\ requests = EmptyBag =>
          localStorage = EmptyStore

\* C14 as stated: for a user who is absent, has no role, or has a role with
\* no permissions, the single, ANY and ALL checks are false for every
\* required permission and every required set.
C14_FailClosedAsStated ==
    rendered.component = "hooks" /\ NoPermissions(rendered.session) =>
       /\ ~rendered.result.single
       /\ ~rendered.result.any
       /\ ~rendered.result.all

\* C14, amended: for such a user the single check and the ANY check are
\* false for every required permission and set, and the ALL check is false
\* for every non-empty required set, and for every set when the user is
\* absent or has no role; the guards render no children for such a user
\* whenever they require a permission.
C14_FailClosed ==
    /\ rendered.component = "hooks" /\ NoPermissions(rendered.session) =>
          /\ ~rendered.result.single
          /\ ~rendered.result.any
          /\ rendered.props.permissions # {} => ~rendered.result.all
          /\ rendered.session.user = null \/ rendered.session.role = NoRole
                => ~rendered.result.all
    /\ rendered.component = "PermissionGuard"
       /\ NoPermissions(rendered.session) => rendered.result = Fallback
    /\ rendered.component = "RoleGuard"
       /\ NoPermissions(rendered.session)
       /\ rendered.props.requiredPermissions # {}
          => rendered.result # Children

\* A user whose role has no permissions asked for all permissions: the
\* three hooks answered false.
C14_Witness ==
    /\ rendered.component = "hooks"
    /\ rendered.session.user # null
    /\ rendered.session.role \in Roles
    /\ rendered.session.role.permissions = {}
    /\ rendered.props.permissions = Permissions
    /\ ~rendered.result.single
    /\ ~rendered.result.any
    /\ ~rendered.result.all

\* C15 as stated: PermissionGuard renders its children iff the evaluator is
\* true of the permissions of the user's role (p in P; some element of R in
\* P; every element of R in P), and the fallback otherwise.
C15_PermissionGuardAsStated ==
    rendered.component = "PermissionGuard" =>
       /\ rendered.result = Children <=>
             Evaluator(userPermissions(rendered.session), rendered.props)
       /\ rendered.result # Children => rendered.result = Fallback

\* C15, amended: the same, except that a guard given an empty required set
\* renders the fallback under ALL as it does under ANY.
C15_PermissionGuard ==
    rendered.component = "PermissionGuard" =>
       /\ rendered.result = Children <=>
             /\ Evaluator(userPermissions(rendered.session), rendered.props)
             /\ rendered.props.permission # null
                \/ rendered.props.permissions # {}
       /\ rendered.result # Children => rendered.result = Fallback

\* HasPermission(permission="role:write") rendered its children for a user
\* whose role has that permission only.
C15_Witness ==
    /\ rendered.component = "PermissionGuard"
    /\ rendered.props = HasPermission("role:write")
    /\ rendered.session.role.permissions = {"role:write"}
    /\ rendered.result = Children

\* C16: for a non-empty required set, whenever useAllPermissions is true so
\* is useAnyPermission, and whenever RoleGuard with requireAll renders its
\* children so does RoleGuard without requireAll and otherwise equal props.
C16_AllImpliesAny ==
    /\ rendered.component = "hooks" /\ rendered.props.permissions # {} =>
          (rendered.result.all => rendered.result.any)
    /\ \A R \in (SUBSET Permissions) \ {{}} :
          useAllPermissions(user, role, R) => useAnyPermission(user, role, R)
    /\ \A props \in RoleGuardProps :
          /\ props.requiredPermissions # {}
          /\ RoleGuard(useAuth, [props EXCEPT !.requireAll = TRUE],
                       location) = Children
          => RoleGuard(useAuth, [props EXCEPT !.requireAll = FALSE],
                       location) = Children

\* RoleGuard with requireAll and both permissions required rendered its
\* children, for a user who has both.
C16_Witness ==
    /\ rendered.component = "RoleGuard"
    /\ rendered.props.requireAll
    /\ rendered.props.requiredRole = null
    /\ rendered.props.requiredPermissions = Permissions
    /\ rendered.session.role.permissions = Permissions
    /\ rendered.result = Children

C19_UpdateProfileAsStated ==
    [][/\ \A r \in InFlight, d \in ResponseData :
             onFulfilled(r, d) /\ r.kind = "updateProfile" => user' = d.user
       /\ Settled("updateProfile") /\ last'.result # "fulfilled" =>
             /\ last'.threw
             /\ user' = user
             /\ localStorage' = localStorage
             /\ isLoading' = isLoading]_vars

\* C19, amended: a fulfilled updateProfile replaces the user by the returned
\* one and touches nothing else; a failed one re-throws and leaves the user
\* and isLoading as they were, and leaves the tokens as they were unless the
\* failure is that of the refresh made for a 401 (or the lack of a refresh
\* token), in which case the interceptor has cleared both tokens.
C19_UpdateProfile ==
    [][/\ \A r \in InFlight, d \in ResponseData :
             onFulfilled(r, d) /\ r.kind = "updateProfile" =>
                /\ user' = d.user
                /\ localStorage' = localStorage
                /\ isLoading' = isLoading
                /\ ~last'.threw
       /\ Settled("updateProfile") /\ last'.result # "fulfilled" =>
             /\ last'.threw
             /\ user' = user
             /\ isLoading' = isLoading
             /\ last'.result = "ApiError" => localStorage' = localStorage
             /\ last'.result \in {"refreshError", "noRefreshToken"} =>
                   localStorage' = EmptyStore
       /\ \A r \in InFlight, d \in RefreshData :
             refreshFulfilled(r, d) /\ r.kind = "updateProfile" =>
                /\ user' = user
                /\ isLoading' = isLoading
                /\ getToken(localStorage') = d.accessToken]_vars

\* An updateProfile of a session with a user failed on the server: the user
\* and the tokens are still there.
C19_Witness ==
    /\ last.kind = "updateProfile"
    /\ last.result = "ApiError"
    /\ last.status = 500
    /\ last.threw
    /\ user # null
    /\ localStorage = [auth_token |-> "a1", refresh_token |-> "r1"]

\* C20: the step that completes refreshToken() leaves the fetched user when
\* the profile fetch was fulfilled, and otherwise leaves no tokens and no
\* user and re-throws; isLoading is not touched.
C20_RefreshClearsOnFailure ==
    [][/\ \A r \in InFlight, d \in ResponseData :
             onFulfilled(r, d) /\ r.kind = "refreshToken" =>
                /\ user' = d.user
                /\ localStorage' = localStorage
                /\ ~last'.threw
       /\ Settled("refreshToken") /\ last'.result # "fulfilled" =>
             /\ localStorage' = EmptyStore
             /\ user' = null
             /\ ~isAuthenticated'
             /\ last'.threw
       /\ Settled("refreshToken") => isLoading' = isLoading]_vars

\* A refreshToken() of a session with a user failed on the server, and the
\* session is gone.
C20_Witness ==
    /\ last.kind = "refreshToken"
    /\ last.result = "ApiError"
    /\ last.status = 500
    /\ last.threw
    /\ user = null
    /\ localStorage = EmptyStore
    /\ calls = 2

\* C21: an error answer that is not the first 401 of its request (a 401 of
\* a request already re-sent and a missing response included) settles the
\* call at once with an ApiError whose status is the status of the response,
\* and 500 when there was no response; the tokens are not touched and no
\* redirect is made.
C21_ErrorsNormalised ==
    [][\A r \in InFlight, status \in ErrorStatuses :
          /\ onRejected(r, status)
          /\ ~(status = 401 /\ ~r._retry)
          => /\ Settled(r.kind)
             /\ last'.result = "ApiError"
             /\ last'.status = (IF status = NoResponse THEN 500 ELSE status)
             /\ last'.status \in {401, 403, 500}
             /\ ~last'.redirect
             /\ RefreshCallsInFlight' = RefreshCallsInFlight
             /\ SentNow = {}]_vars

\* A request re-sent after a refresh was answered 401 again, and was
\* surfaced as an ApiError of status 401.
C21_Witness ==
    /\ last.result = "ApiError"
    /\ last.status = 401
    /\ last.sends = 2
    /\ last.refreshes = 1

\* C22 as stated: the re-send after a token refresh is the only automatic
\* one: every step that puts a request on the wire is a call made by an
\* operation or a component, or the re-send that follows a refresh.
C22_OnlyRefreshRetriesAsStated ==
    [][SentNow # {} =>
          \/ calls' = calls + 1
          \/ \E r \in InFlight, data \in RefreshData :
                refreshFulfilled(r, data)]_vars

\* C23 as stated: a step that belongs to no session operation leaves user,
\* isAuthenticated and isLoading unchanged.
C23_SessionFrameAsStated ==
    [][OutsideSessionStep =>
          /\ user' = user
          /\ isLoading' = isLoading
          /\ isAuthenticated' = isAuthenticated]_vars

\* C23, amended: a step that belongs to no session operation leaves user and
\* isLoading unchanged; isAuthenticated, which is read from the token store
\* as well, changes with the store when the interceptor writes it: it turns
\* false when a refresh fails or cannot be made, and can only turn true when
\* a refresh succeeds.
C23_SessionFrame ==
    [][OutsideSessionStep =>
          /\ user' = user
          /\ isLoading' = isLoading
          /\ isAuthenticated /\ ~isAuthenticated' =>
                /\ last'.kind = "getUsers"
                /\ last'.result \in {"refreshError", "noRefreshToken"}
                /\ localStorage' = EmptyStore
          /\ ~isAuthenticated /\ isAuthenticated' =>
                \E r \in InFlight, data \in RefreshData :
                   refreshFulfilled(r, data)
          /\ localStorage' = localStorage =>
                isAuthenticated' = isAuthenticated]_vars

\* The refresh made for a users-list request failed: the user is still set
\* and the session is no longer authenticated.
C23_Witness ==
    /\ last.kind = "getUsers"
    /\ last.result = "refreshError"
    /\ user # null
    /\ localStorage = EmptyStore
    /\ ~isAuthenticated

\* C24: a login and a logout can be in flight together, and neither waits
\* for nor cancels the other: the completion of the login, whenever it
\* comes, leaves the session authenticated with the user and the tokens of
\* its response, and the completion of the logout, whenever it comes,
\* leaves it anonymous with no tokens; the other call stays in flight.
C24_LastWriteWins ==
    [][\A r \in InFlight :
          /\ r.kind = "login" =>
                \A data \in ResponseData :
                   onFulfilled(r, data) =>
                      /\ user' = data.user
                      /\ localStorage' =
                            [auth_token |-> data.accessToken,
                             refresh_token |-> data.refreshToken]
                      /\ isAuthenticated'
                      /\ \A q \in InFlight :
                            q.kind = "logout" => q \in InFlight'
          /\ r.kind = "logout" /\ Settled("logout")
             /\ CopiesIn(r, requests') < CopiesIn(r, requests) =>
                /\ user' = null
                /\ localStorage' = EmptyStore
                /\ ~isAuthenticated'
                /\ \A q \in InFlight :
                      q.kind = "login" => q \in InFlight']_vars

\* A logout was sent while the store was empty and is still in flight; the
\* login that was in flight with it has completed since, and the session is
\* authenticated.
C24_Witness ==
    /\ \E q \in InFlight :
          q.kind = "logout" /\ q.phase = "sent" /\ q.Authorization = null
    /\ last.kind = "login"
    /\ last.result = "fulfilled"
    /\ isAuthenticated
    /\ ~isLoading

\* C25: the completion of logout() takes no other request out of flight,
\* and a profile fetch of initializeAuth or refreshToken() that is fulfilled
\* sets the user of its response whatever completed since it was sent, a
\* logout included.
C25_StaleFetchSetsUser ==
    [][/\ Settled("logout") =>
             \A q \in InFlight :
                q.kind # "logout" =>
                   CopiesIn(q, requests') = CopiesIn(q, requests)
       /\ \A r \in InFlight, data \in ResponseData :
             /\ r.kind \in {"initializeAuth", "refreshToken"}
             /\ onFulfilled(r, data)
             => /\ user' = data.user
                /\ loggedOut' = loggedOut
                /\ localStorage' = localStorage]_vars

\* A logout has completed, nobody logged in since, and the profile fetch of
\* the start, fulfilled after it, has set the user.
C25_Witness ==
    /\ loggedOut
    /\ last.kind = "initializeAuth"
    /\ last.result = "fulfilled"
    /\ user # null
    /\ localStorage = EmptyStore

\* C27 as stated: from the completion of a logout() until a login or a
\* register is started, the token store is empty and the session is not
\* authenticated (read here for a logout that no login or register was in
\* flight with).
C27_LogoutSticksAsStated ==
    loggedOut => localStorage = EmptyStore /\ ~isAuthenticated

\* C26 as stated: after setTokens(a, b) with strings a and b the store reads
\* a and b; after clearTokens() it reads absent for both, and a second
\* clearTokens() changes nothing.
C26_RoundTripAsStated ==
    /\ last.kind = "setTokens" /\ last.refreshToken # null =>
          /\ getToken(localStorage) = last.accessToken
          /\ getRefreshToken(localStorage) = last.refreshToken
    /\ last.kind = "clearTokens" =>
          /\ getToken(localStorage) = null
          /\ getRefreshToken(localStorage) = null
          /\ clearTokens(localStorage) = localStorage

\* C26, amended: after setTokens(a, b) the store reads a, and reads b when b
\* is a non-empty string; when b is empty or omitted the refresh token reads
\* as before the call. After clearTokens() both read absent, whatever was
\* stored, and a second clearTokens() changes nothing.
C26_RoundTrip ==
    /\ last.kind = "setTokens" =>
          /\ getToken(localStorage) = last.accessToken
          /\ last.refreshToken \notin {null, ""} =>
                getRefreshToken(localStorage) = last.refreshToken
          /\ last.refreshToken \in {null, ""} =>
                getRefreshToken(localStorage) =
                   getRefreshToken(last.before)
    /\ last.kind = "clearTokens" =>
          /\ getToken(localStorage) = null
          /\ getRefreshToken(localStorage) = null
          /\ clearTokens(localStorage) = localStorage

\* setTokens("a2", "r2") was called on a store holding another pair, and the
\* store reads ("a2", "r2").
C26_Witness ==
    /\ last.kind = "setTokens"
    /\ last.before = [auth_token |-> "a1", refresh_token |-> "r1"]
    /\ last.accessToken = "a2"
    /\ last.refreshToken = "r2"
    /\ localStorage = [auth_token |-> "a2", refresh_token |-> "r2"]

\* C28: once the mount effect has run, isLoading is false whenever no call
\* of initializeAuth, login, register or logout is in flight, however these
\* were interleaved and answered; and no step made by or for refreshToken()
\* or updateProfile() changes isLoading.
C28_QuiescentNotLoading ==
    /\ [](/\ mounted
          /\ \A q \in InFlight :
                q.kind \notin {"initializeAuth", "login", "register",
                               "logout"}
          => ~isLoading)
    /\ [][/\ refreshToken \/ updateProfile => isLoading' = isLoading
          /\ \A r \in InFlight :
                /\ r.kind \in {"refreshToken", "updateProfile"}
                /\ CopiesIn(r, requests') < CopiesIn(r, requests)
                => isLoading' = isLoading]_vars

\* A login failed while nothing else was in flight, and the session is not
\* loading.
C28_Witness ==
    /\ mounted
    /\ requests = EmptyBag
    /\ last.kind = "login"
    /\ last.threw
    /\ calls = 2
    /\ ~isLoading

\* C29: with a backend that answers every call, the requests in flight all
\* settle; and a failure of the refresh endpoint settles the request it was
\* made for as a refresh failure, with no further refresh call and no
\* re-send.
C29_EveryRequestSettles ==
    /\ (requests # EmptyBag) ~> (requests = EmptyBag)
    /\ [][\A r \in InFlight :
             refreshRejected(r) =>
                /\ BagCardinality(requests') = BagCardinality(requests) - 1
                /\ RefreshCallsInFlight' = RefreshCallsInFlight - 1
                /\ SentNow = {}
                /\ last'.kind = r.kind
                /\ last'.result = "refreshError"
                /\ last'.refreshes = 1]_vars

\* The refresh made for a users-list request failed, and with it the last
\* request in flight has settled.
C29_Witness ==
    /\ requests = EmptyBag
    /\ queryRetries = 0
    /\ calls = 2
    /\ last.result = "refreshError"
    /\ last.kind = "getUsers"
    /\ last.refreshes = 1

\* C30 as stated: (a) the selection holds no user id twice; (b) toggling a
\* displayed user twice gives back the selection, as a set of users; (c)
\* whenever the select-all checkbox is shown checked, every displayed user
\* is in the selection.
C30_SelectionAsStated ==
    /\ \A i, j \in DOMAIN selectedUsers :
          i # j => selectedUsers[i] # selectedUsers[j]
    /\ \A id \in Range(filteredUsers) :
          Range(handleUserSelect_updater(
                   handleUserSelect_updater(selectedUsers, id), id))
             = Range(selectedUsers)
    /\ isAllSelected(filteredUsers, selectedUsers) =>
          \A id \in Range(filteredUsers) : isUserSelected(selectedUsers, id)

====
